---- MODULE Spec2Model ----
(***************************************************************************)
(* Model of the funding validator (src/validator.py): get_funding tasks    *)
(* gated by an asyncio.Semaphore and the main() loop that collects their   *)
(* results through asyncio.as_completed, progress, filters the funded records and    *)
(* writes them.                                                            *)
(*                                                                         *)
(* Strings that the program parses (hex block numbers, ISO-8601 block      *)
(* timestamps) are sequences of one-character strings; strings that it     *)
(* only copies (addresses, hashes, ids) are TLA+ strings.  Python dicts    *)
(* are functions over their keys, so a missing key is a missing element of *)
(* DOMAIN.                                                                 *)
(*                                                                         *)
(* Spec       runs over up to MaxN rows, every order of the rows and every *)
(*            interleaving of the tasks; the semaphore has the capacity of *)
(*            line 98 or a small one, at which the tasks have to wait.     *)
(* SpecClient the same runs over few rows and every shape of reply.        *)
(* FairSpec   Spec with the fairness of the event loop.                    *)
(* SpecLike   runs over up to MaxTasks rows with the same address and the  *)
(*            semaphore of capacity 20, told by the number of tasks at     *)
(*            each place.                                                  *)
(***************************************************************************)
EXTENDS Integers, Sequences, FiniteSets, TLC

\* Largest number of input rows of a run.
MaxN == 3

\* Largest number of input rows of a run over every shape of reply.
ClientRows == 2

----------------------------------------------------------------------------
(* Values parsed by get_funding *)

DecDigit ==
  ("0" :> 0) @@ ("1" :> 1) @@ ("2" :> 2) @@ ("3" :> 3) @@ ("4" :> 4) @@
  ("5" :> 5) @@ ("6" :> 6) @@ ("7" :> 7) @@ ("8" :> 8) @@ ("9" :> 9)

HexDigit ==
  DecDigit @@
  ("a" :> 10) @@ ("b" :> 11) @@ ("c" :> 12) @@ ("d" :> 13) @@ ("e" :> 14) @@
  ("f" :> 15) @@ ("A" :> 10) @@ ("B" :> 11) @@ ("C" :> 12) @@ ("D" :> 13) @@
  ("E" :> 14) @@ ("F" :> 15)

\* The value of a string of digits in the given base, most significant first.
DigitsValue(s, digit, base) ==
  LET upTo[i \in 0..Len(s)] ==
        IF i = 0 THEN 0 ELSE upTo[i - 1] * base + digit[s[i]]
  IN upTo[Len(s)]

AllIn(s, digit) == \A i \in 1..Len(s) : s[i] \in DOMAIN digit

\* int(s, 16): an optional 0x / 0X prefix, then at least one hex digit.
\* [ok |-> FALSE] stands for the ValueError.
HexBody(s) ==
  IF Len(s) >= 2 /\ s[1] = "0" /\ s[2] \in {"x", "X"}
  THEN SubSeq(s, 3, Len(s)) ELSE s

IntBase16(s) ==
  LET body == HexBody(s) IN
  IF Len(body) >= 1 /\ AllIn(body, HexDigit)
  THEN [ok |-> TRUE, value |-> DigitsValue(body, HexDigit, 16)]
  ELSE [ok |-> FALSE]

\* str.replace('Z', '+00:00')
ReplaceZ(s) ==
  LET upTo[i \in 0..Len(s)] ==
        IF i = 0 THEN <<>>
        ELSE upTo[i - 1] \o (IF s[i] = "Z" THEN <<"+", "0", "0", ":", "0", "0">>
                                            ELSE <<s[i]>>)
  IN upTo[Len(s)]

IsLeap(y) == (y % 4 = 0 /\ y % 100 # 0) \/ y % 400 = 0

DaysInMonth(y, m) ==
  IF m = 2 THEN (IF IsLeap(y) THEN 29 ELSE 28)
  ELSE IF m \in {4, 6, 9, 11} THEN 30 ELSE 31

\* Days from 1970-01-01 to the proleptic Gregorian date y-m-d.
DaysFromCivil(y, m, d) ==
  LET yy  == IF m <= 2 THEN y - 1 ELSE y
      era == yy \div 400
      yoe == yy - era * 400
      mp  == (m + 9) % 12
      doy == (153 * mp + 2) \div 5 + d - 1
      doe == yoe * 365 + yoe \div 4 - yoe \div 100 + doy
  IN era * 146097 + doe - 719468

Num(s, from, to) == DigitsValue(SubSeq(s, from, to), DecDigit, 10)

IsNum(s, from, to) == to <= Len(s) /\ AllIn(SubSeq(s, from, to), DecDigit)

\* The length of the optional fraction of seconds (.fff or .ffffff) at 20.
FractionLen(s) ==
  IF Len(s) >= 20 /\ s[20] = "."
  THEN (IF IsNum(s, 21, 26) THEN 7 ELSE IF IsNum(s, 21, 23) THEN 4 ELSE -1)
  ELSE 0

\* int(datetime.fromisoformat(s).timestamp()) for
\* YYYY-MM-DD?HH:MM:SS[.fff[fff]][+HH:MM], a time without offset taken as UTC.
\* [ok |-> FALSE] stands for the ValueError.
ParseIso(s) ==
  LET fl  == FractionLen(s)
      o   == 19 + fl
      shape ==
        /\ Len(s) >= 19
        /\ IsNum(s, 1, 4) /\ s[5] = "-" /\ IsNum(s, 6, 7) /\ s[8] = "-"
        /\ IsNum(s, 9, 10)
        /\ IsNum(s, 12, 13) /\ s[14] = ":" /\ IsNum(s, 15, 16) /\ s[17] = ":"
        /\ IsNum(s, 18, 19)
        /\ fl >= 0
        /\ \/ Len(s) = o
           \/ /\ Len(s) = o + 6
              /\ s[o + 1] \in {"+", "-"}
              /\ IsNum(s, o + 2, o + 3) /\ s[o + 4] = ":"
              /\ IsNum(s, o + 5, o + 6)
  IN
  IF ~shape THEN [ok |-> FALSE]
  ELSE
    LET y  == Num(s, 1, 4)
        m  == Num(s, 6, 7)
        d  == Num(s, 9, 10)
        h  == Num(s, 12, 13)
        mi == Num(s, 15, 16)
        se == Num(s, 18, 19)
        off == IF Len(s) = o THEN 0
               ELSE (IF s[o + 1] = "-" THEN -1 ELSE 1)
                      * (Num(s, o + 2, o + 3) * 3600 + Num(s, o + 5, o + 6) * 60)
        inRange ==
          /\ y >= 1 /\ m \in 1..12 /\ d >= 1 /\ d <= DaysInMonth(y, m)
          /\ h < 24 /\ mi < 60 /\ se < 60
          /\ (Len(s) = o \/ (Num(s, o + 2, o + 3) < 24 /\ Num(s, o + 5, o + 6) < 60))
    IN IF ~inRange THEN [ok |-> FALSE]
       ELSE [ok |-> TRUE,
             value |-> DaysFromCivil(y, m, d) * 86400
                         + h * 3600 + mi * 60 + se - off]

\* ParseIso of s, with s evaluated once.
FromIsoTimestamp(s) == CHOOSE parsed \in {ParseIso(z) : z \in {s}} : TRUE

----------------------------------------------------------------------------
(* Inputs: the rows of the input file and the replies of the remote API *)

\* The columns of the input file: with or without an Address column.
Headers == {<<"ID", "Address">>, <<"ID">>}

\* Addresses of the input, one per kind of reply.
Addresses == {"0xA", "0xB", "0xC", "0xD", "0xE"}

\* Addresses whose replies deviate from the expected shape in one place each.
ShapeAddresses ==
  {"0xD1", "0xD2", "0xD3", "0xD4", "0xD5", "0xD6", "0xD7", "0xF", "0xG"}

\* The columns of an input file that was written by an earlier run.
Revalidated == <<"ID", "Address", "firstTxHash">>

\* csv.DictReader gives every row the keys of the header.
RowsOf(h, addresses) ==
  IF h = <<"ID", "Address">>
  THEN {[ID |-> "id", Address |-> a] : a \in addresses}
  ELSE IF h = Revalidated
  THEN {[ID |-> "id", Address |-> a, firstTxHash |-> "0xold"] : a \in addresses}
  ELSE {[ID |-> "id"]}

Timestamp0xA ==
  <<"2", "0", "2", "3", "-", "0", "6", "-", "0", "1", "T",
    "1", "2", ":", "0", "0", ":", "0", "0", "Z">>

\* The 13th month
TimestampBad ==
  <<"2", "0", "2", "3", "-", "1", "3", "-", "0", "1", "T",
    "1", "2", ":", "0", "0", ":", "0", "0", "Z">>

\* With milliseconds, as the provider sends it
TimestampMillis ==
  <<"2", "0", "2", "2", "-", "0", "2", "-", "0", "8", "T",
    "2", "2", ":", "4", "4", ":", "4", "7", ".", "0", "0", "0", "Z">>

Transfer0xA ==
  [hash |-> "0xaaa", from |-> "0xfund1",
   metadata |-> [blockTimestamp |-> Timestamp0xA],
   blockNum |-> <<"0", "x", "6", "4">>]

Transfer0xG ==
  [hash |-> "0xggg", from |-> "0xfund7",
   metadata |-> [blockTimestamp |-> TimestampMillis],
   blockNum |-> <<"0", "x", "1", "0">>]

\* The function f without the key k.
Without(f, k) == [x \in DOMAIN f \ {k} |-> f[x]]

WithTransfers(ts) == [raises |-> FALSE, data |-> [result |-> [transfers |-> ts]]]

\* What session.post / response.json give for an address: an exception
\* (raises) or the decoded JSON document (data).
\*   0xA  one well-formed transfer       0xB  an empty transfer list
\*   0xC  a network error                0xD  a transfer with a bad blockNum
\*   0xE  an error document without the 'result' key
\*   0xD1 a transfer without hash        0xD2 a transfer without from
\*   0xD3 a transfer without metadata    0xD4 metadata without blockTimestamp
\*   0xD5 a transfer with a bad timestamp
\*   0xD6 a transfer without blockNum    0xD7 a transfer with an empty blockNum
\*   0xF  a result without 'transfers'   0xG  two transfers, the first one
\*                                            well-formed, the second one not
Reply(a) ==
  CASE a = "0xA" -> WithTransfers(<<Transfer0xA>>)
    [] a = "0xB" -> WithTransfers(<<>>)
    [] a = "0xC" -> [raises |-> TRUE]
    [] a = "0xD" ->
         WithTransfers(<<[Transfer0xA EXCEPT !.blockNum = <<"0", "x", "z">>]>>)
    [] a = "0xD1" -> WithTransfers(<<Without(Transfer0xA, "hash")>>)
    [] a = "0xD2" -> WithTransfers(<<Without(Transfer0xA, "from")>>)
    [] a = "0xD3" -> WithTransfers(<<Without(Transfer0xA, "metadata")>>)
    [] a = "0xD4" ->
         WithTransfers(<<[Transfer0xA EXCEPT !.metadata = [blockHash |-> "0x1"]]>>)
    [] a = "0xD5" ->
         WithTransfers(<<[Transfer0xA EXCEPT
                            !.metadata = [blockTimestamp |-> TimestampBad]]>>)
    [] a = "0xD6" -> WithTransfers(<<Without(Transfer0xA, "blockNum")>>)
    [] a = "0xD7" -> WithTransfers(<<[Transfer0xA EXCEPT !.blockNum = <<>>]>>)
    [] a = "0xF" -> [raises |-> FALSE, data |-> [result |-> [count |-> 0]]]
    [] a = "0xG" ->
         WithTransfers(<<Transfer0xG, Without(Transfer0xA, "hash")>>)
    [] OTHER ->
         [raises |-> FALSE, data |-> [error |-> "invalid"]]

\* os.getenv gives None for a variable that is not set; the f-string of
\* line 44 puts it into the URL as the text None.
Unset == "None"

\* What the service answers to a request without a valid key in the URL: an
\* error document.
Unauthenticated == [raises |-> FALSE, data |-> [error |-> "unauthenticated"]]

\* The request for address a never completes: lines 43-48 set no timeout,
\* and the await of session.post does not return.
Hangs(a) == a = "0xH"

\* Lines 43-48: what the request for address a gives when sent with key.
Answer(key, a) == IF key = Unset THEN Unauthenticated ELSE Reply(a)

----------------------------------------------------------------------------
(* get_funding, the parts without suspension *)

\* {**row, ...}: the keys of extra override the keys of row.
Overlay(row, extra) == extra @@ row

\* The unfunded record without the fields of the row.
UnfundedBare(row) == [funded |-> FALSE]

\* Lines 71, 75: {**row, 'funded': False}
Unfunded(row) == Overlay(row, [funded |-> FALSE])

\* Lines 29-40: building the payload reads row['Address'].
PayloadRaises(row) == "Address" \notin DOMAIN row

\* Interpret that takes any non-empty transfer list as funding, without
\* reading the fields of the transfer.
InterpretUnparsed(row, data) ==
  IF "result" \notin DOMAIN data THEN [kind |-> "sleep"]
  ELSE IF "transfers" \notin DOMAIN data.result THEN [kind |-> "except"]
  ELSE IF data.result.transfers = <<>> THEN [kind |-> "sleep"]
  ELSE [kind |-> "return", rec |-> Overlay(row, [funded |-> TRUE])]

\* Lines 51-71, from the decoded document to the first of: an exception,
\* the funded return, the sleep before the unfunded return.
Interpret(row, data) ==
  IF "result" \notin DOMAIN data THEN [kind |-> "sleep"]
  ELSE IF "transfers" \notin DOMAIN data.result THEN [kind |-> "except"]
  ELSE IF data.result.transfers = <<>> THEN [kind |-> "sleep"]
  ELSE
    LET transfer == data.result.transfers[1] IN
    IF \/ "metadata" \notin DOMAIN transfer
       \/ "blockTimestamp" \notin DOMAIN transfer.metadata
    THEN [kind |-> "except"]
    ELSE
      LET ts == FromIsoTimestamp(ReplaceZ(transfer.metadata.blockTimestamp)) IN
      IF ~ts.ok THEN [kind |-> "except"]
      ELSE IF "hash" \notin DOMAIN transfer THEN [kind |-> "except"]
      ELSE IF "from" \notin DOMAIN transfer THEN [kind |-> "except"]
      ELSE IF "blockNum" \notin DOMAIN transfer THEN [kind |-> "except"]
      ELSE
        LET block == IntBase16(transfer.blockNum) IN
        IF ~block.ok THEN [kind |-> "except"]
        ELSE [kind |-> "return",
              rec |-> Overlay(row, [funded |-> TRUE,
                                    firstTxHash |-> transfer.hash,
                                    funder |-> transfer.from,
                                    timestamp |-> ts.value,
                                    block |-> block.value])]

\* A handler that raises again instead of returning the unfunded record.
HandlerReraises(row) == [kind |-> "raise"]

\* Lines 72-75: the handler prints row['Address'] before it returns.
Handler(row) ==
  IF "Address" \in DOMAIN row
  THEN [kind |-> "return", rec |-> Unfunded(row), prints |-> <<row.Address>>]
  ELSE [kind |-> "raise"]

\* The lines a task printed on its way to the outcome out.
Lines(out) == IF "prints" \in DOMAIN out THEN out.prints ELSE <<>>

\* OnReply with the sleep in front of every unfunded return, also the one
\* of the handler.
OnReplySleepsOnError(row, reply) ==
  IF reply.raises THEN [kind |-> "sleep"]
  ELSE LET out == Interpret(row, reply.data) IN
       IF out.kind = "except" THEN [kind |-> "sleep"] ELSE out

\* Lines 43-75 once the reply is there.
OnReply(row, reply) ==
  IF reply.raises THEN Handler(row)
  ELSE LET out == Interpret(row, reply.data) IN
       IF out.kind = "except" THEN Handler(row) ELSE out

----------------------------------------------------------------------------
(* The run: main() and its get_funding tasks *)

\* asyncio.Semaphore(20), line 98.
SemaphoreValue == 20

\* The semaphore is also run with the small capacities 1..MaxCeiling, at
\* which MaxN tasks fill it and have to wait.
MaxCeiling == 2

Ceilings == (1..MaxCeiling) \cup {SemaphoreValue}

\* Largest number of input rows of a run of like tasks.
MaxTasks == 22

\* Largest number of input rows of a long run of like tasks.
MaxLong == 101

\* Where a task of a run of like tasks is: not started, blocked in acquire,
\* woken in acquire, awaiting the reply, in the sleep, finished and queued
\* for main.
Places == {"start", "waiting", "woken", "request", "sleep", "queued"}

\* The result of a task that has not returned one.
None == [none |-> TRUE]

\* The state of process_csv in a run of the validator.
Unused == [at |-> "unused"]

\* Line 119: a progress line every 100 completions.
ProgressEvery == 100

VARIABLES
  header,     \* reader.fieldnames
  rows,       \* the input rows, one task each
  ceiling,    \* the capacity the semaphore was created with
  api_key,    \* os.getenv('ALCHEMY_API_KEY') (line 95)
  parser,     \* parser.py: the state of process_csv
  value,      \* semaphore._value: the free slots
  waiters,    \* semaphore._waiters: the tasks blocked in acquire, oldest first
  pc,         \* where each task is
  result,     \* what each task returned
  log,        \* the lines each task printed at line 73
  delayed,    \* whether each task went through asyncio.sleep (line 70)
  sent,       \* the number of requests each task sent (line 43)
  done,       \* the queue of as_completed: finished tasks not yet consumed
  results,    \* main: the list results
  completed,  \* main: the counter completed
  progress,   \* main: the lines printed at lines 120-123
  mpc,        \* where main is
  funded,     \* main: the list funded (line 126)
  output,     \* the rows written to the output file
  tally       \* the number of tasks at each place, for runs of like tasks

vars == <<header, rows, ceiling, api_key, parser, value, waiters, pc, result,
          log, delayed, sent, done, results, completed, progress, mpc, funded,
          output, tally>>

\* What no step of a run of the validator changes.
fixed == <<header, rows, ceiling, api_key, parser>>

N == Len(rows)

Tasks == 1..N

\* The tasks inside `async with semaphore`.
Holding == {t \in Tasks : pc[t] \in {"request", "sleep"}}

\* Every task has run up to its first suspension.  The event loop runs the
\* first step of all the tasks as_completed scheduled before it handles a
\* reply or resumes main.
AllStarted == \A t \in Tasks : pc[t] # "start"

RECURSIVE SeqsUpTo(_, _)
SeqsUpTo(S, n) ==
  IF n = 0 THEN {<<>>}
  ELSE LET shorter == SeqsUpTo(S, n - 1) IN
       shorter \cup {Append(q, x) : q \in {r \in shorter : Len(r) = n - 1}, x \in S}

\* The state of a run that has read its input (line 92).
Loaded ==
  /\ ceiling \in Ceilings
  /\ tally = [place \in Places |-> 0]
  /\ value = ceiling
  /\ waiters = <<>>
  /\ pc = [t \in 1..Len(rows) |-> "start"]
  /\ result = [t \in 1..Len(rows) |-> None]
  /\ log = [t \in 1..Len(rows) |-> <<>>]
  /\ delayed = [t \in 1..Len(rows) |-> FALSE]
  /\ sent = [t \in 1..Len(rows) |-> 0]
  /\ done = <<>>
  /\ results = <<>>
  /\ completed = 0
  /\ progress = <<>>
  /\ mpc = "setup"
  /\ funded = <<>>
  /\ output = <<>>
  /\ parser = Unused

\* With the key set the rows are of any address; without it every request
\* gets the same answer, and the rows are of one address.
Init ==
  /\ header \in Headers
  /\ \/ /\ api_key = "key"
        /\ rows \in SeqsUpTo(RowsOf(header, Addresses), MaxN)
     \/ /\ api_key = Unset
        /\ rows \in SeqsUpTo(RowsOf(header, {"0xA"}), MaxN)
  /\ Loaded

\* Runs over few rows, with every shape of reply.
InitClient ==
  /\ header \in Headers \cup {Revalidated}
  /\ api_key = "key"
  /\ rows \in SeqsUpTo(RowsOf(header, Addresses \cup ShapeAddresses), ClientRows)
  /\ Loaded

\* release() that wakes the waiter without counting the slot as free.
releaseLost(v, p) ==
  /\ value' = v
  /\ IF waiters # <<>>
     THEN /\ pc' = [p EXCEPT ![Head(waiters)] = "woken"]
          /\ waiters' = Tail(waiters)
     ELSE /\ pc' = p
          /\ waiters' = waiters

\* Semaphore.release() by a task that leaves `async with` while the free
\* slots are v and the tasks are at p: one more free slot, and the oldest
\* waiter is woken.
release(v, p) ==
  /\ value' = v + 1
  /\ IF waiters # <<>>
     THEN /\ pc' = [p EXCEPT ![Head(waiters)] = "woken"]
          /\ waiters' = Tail(waiters)
     ELSE /\ pc' = p
          /\ waiters' = waiters

\* A task leaves get_funding with out (a return or an exception) while the
\* free slots are v: __aexit__ releases the slot, and the done callback of
\* as_completed queues the finished task.
Leave(t, out, v) ==
  /\ release(v, [pc EXCEPT ![t] = IF out.kind = "return" THEN "returned"
                                  ELSE "raised"])
  /\ result' = [result EXCEPT ![t] = IF out.kind = "return" THEN out.rec
                                     ELSE None]
  /\ log' = [log EXCEPT ![t] = @ \o Lines(out)]
  /\ done' = Append(done, t)

\* Enter that sends one request per address: a task whose address another
\* task has asked for returns without a request of its own.
EnterCoalesced(t, v) ==
  IF PayloadRaises(rows[t])
  THEN /\ Leave(t, Handler(rows[t]), v)
       /\ UNCHANGED <<delayed, sent>>
  ELSE IF \E u \in Tasks \ {t} :
            sent[u] > 0 /\ rows[u].Address = rows[t].Address
  THEN /\ Leave(t, [kind |-> "return", rec |-> Unfunded(rows[t])], v)
       /\ UNCHANGED <<delayed, sent>>
  ELSE /\ value' = v
       /\ pc' = [pc EXCEPT ![t] = "request"]
       /\ sent' = [sent EXCEPT ![t] = @ + 1]
       /\ UNCHANGED <<waiters, result, log, delayed, done>>

\* Lines 27-47 of a task that has just taken a slot (v free slots left):
\* the payload is built and the request sent, or the KeyError of the payload
\* goes to the handler.
Enter(t, v) ==
  IF PayloadRaises(rows[t])
  THEN /\ Leave(t, Handler(rows[t]), v)
       /\ UNCHANGED <<delayed, sent>>
  ELSE /\ value' = v
       /\ pc' = [pc EXCEPT ![t] = "request"]
       /\ sent' = [sent EXCEPT ![t] = @ + 1]
       /\ UNCHANGED <<waiters, result, log, delayed, done>>

\* Lines 94-113: the semaphore, the session and the tasks are created and
\* main waits for the first completion.
Setup ==
  /\ mpc = "setup"
  /\ mpc' = "collect"
  /\ UNCHANGED <<tally, fixed, value, waiters, pc, result, log, delayed, sent,
                 done, results, completed, progress, funded, output>>

\* Line 26, the first step of a task: Semaphore.acquire() takes a free slot
\* or queues the task.
Start(t) ==
  /\ mpc = "collect"
  /\ pc[t] = "start"
  /\ IF value > 0
     THEN Enter(t, value - 1)
     ELSE /\ waiters' = Append(waiters, t)
          /\ pc' = [pc EXCEPT ![t] = "waiting"]
          /\ UNCHANGED <<value, result, log, delayed, sent, done>>
  /\ UNCHANGED <<tally, fixed, results, completed, progress, mpc, funded, output>>

\* Resume in which a woken waiter goes on only once main has taken every
\* finished task from the queue.
ResumeAfterCollect(t) ==
  /\ pc[t] = "woken"
  /\ done = <<>>
  /\ IF value > 0
     THEN Enter(t, value - 1)
     ELSE /\ waiters' = Append(waiters, t)
          /\ pc' = [pc EXCEPT ![t] = "waiting"]
          /\ UNCHANGED <<value, result, log, delayed, sent, done>>
  /\ UNCHANGED <<tally, fixed, results, completed, progress, mpc, funded, output>>

\* Line 26, a woken waiter resumes in acquire(): it takes the slot, or
\* waits again when there is none.
Resume(t) ==
  /\ pc[t] = "woken"
  /\ IF value > 0
     THEN Enter(t, value - 1)
     ELSE /\ waiters' = Append(waiters, t)
          /\ pc' = [pc EXCEPT ![t] = "waiting"]
          /\ UNCHANGED <<value, result, log, delayed, sent, done>>
  /\ UNCHANGED <<tally, fixed, results, completed, progress, mpc, funded, output>>

\* Respond in which every task sends the row of the first task.
RespondFirstRow(t) ==
  /\ AllStarted
  /\ pc[t] = "request"
  /\ LET out == OnReply(rows[1], Answer(api_key, rows[1].Address)) IN
     IF out.kind = "sleep"
     THEN /\ pc' = [pc EXCEPT ![t] = "sleep"]
          /\ delayed' = [delayed EXCEPT ![t] = TRUE]
          /\ UNCHANGED <<value, waiters, result, log, done>>
     ELSE /\ Leave(t, out, value)
          /\ UNCHANGED delayed
  /\ UNCHANGED <<tally, fixed, sent, results, completed, progress, mpc, funded, output>>

\* Respond with the sleep outside `async with`: the slot is released when
\* the sleep begins.
RespondReleasesBeforeSleep(t) ==
  /\ AllStarted
  /\ pc[t] = "request"
  /\ ~Hangs(rows[t].Address)
  /\ LET out == OnReply(rows[t], Answer(api_key, rows[t].Address)) IN
     IF out.kind = "sleep"
     THEN /\ release(value, [pc EXCEPT ![t] = "sleep"])
          /\ delayed' = [delayed EXCEPT ![t] = TRUE]
          /\ UNCHANGED <<result, log, done>>
     ELSE /\ Leave(t, out, value)
          /\ UNCHANGED delayed
  /\ UNCHANGED <<tally, fixed, sent, results, completed, progress, mpc, funded, output>>

\* Respond with a timeout: a request that does not complete ends with an
\* exception, which goes to the handler.
RespondTimesOut(t) ==
  /\ AllStarted
  /\ pc[t] = "request"
  /\ LET out == IF Hangs(rows[t].Address) THEN Handler(rows[t])
                ELSE OnReply(rows[t], Answer(api_key, rows[t].Address)) IN
     IF out.kind = "sleep"
     THEN /\ pc' = [pc EXCEPT ![t] = "sleep"]
          /\ delayed' = [delayed EXCEPT ![t] = TRUE]
          /\ UNCHANGED <<value, waiters, result, log, done>>
     ELSE /\ Leave(t, out, value)
          /\ UNCHANGED delayed
  /\ UNCHANGED <<tally, fixed, sent, results, completed, progress, mpc, funded, output>>

\* Lines 43-75: the reply to the request of task t arrives.
Respond(t) ==
  /\ AllStarted
  /\ pc[t] = "request"
  /\ ~Hangs(rows[t].Address)
  /\ LET out == OnReply(rows[t], Answer(api_key, rows[t].Address)) IN
     IF out.kind = "sleep"
     THEN /\ pc' = [pc EXCEPT ![t] = "sleep"]
          /\ delayed' = [delayed EXCEPT ![t] = TRUE]
          /\ UNCHANGED <<value, waiters, result, log, done>>
     ELSE /\ Leave(t, out, value)
          /\ UNCHANGED delayed
  /\ UNCHANGED <<tally, fixed, sent, results, completed, progress, mpc, funded, output>>

\* Lines 70-71: the sleep is over and the task returns the unfunded record.
Awake(t) ==
  /\ pc[t] = "sleep"
  /\ Leave(t, [kind |-> "return", rec |-> Unfunded(rows[t])], value)
  /\ UNCHANGED <<tally, fixed, delayed, sent, results, completed, progress, mpc,
                 funded, output>>

\* The progress lines without the one of the last completion.
ProgressAfterEveryOnly(k, total) ==
  IF k % ProgressEvery = 0
  THEN Append(progress, [completed |-> k, total |-> total])
  ELSE progress

\* Lines 119-123: the lines printed so far and the one printed when the
\* counter has got to k out of total.
ProgressAfter(k, total) ==
  IF k % ProgressEvery = 0 \/ k = total
  THEN Append(progress, [completed |-> k, total |-> total])
  ELSE progress

\* The loop body with the increment of the counter lost.
CollectLostUpdate ==
  /\ mpc = "collect"
  /\ AllStarted
  /\ completed < N
  /\ done # <<>>
  /\ done' = Tail(done)
  /\ IF pc[Head(done)] = "raised"
     THEN /\ mpc' = "aborted"
          /\ UNCHANGED <<results, completed, progress>>
     ELSE /\ results' = Append(results, result[Head(done)])
          /\ completed' = completed
          /\ progress' = progress
          /\ mpc' = mpc
  /\ UNCHANGED <<tally, fixed, value, waiters, pc, result, log, delayed, sent,
                 funded, output>>

\* Lines 113-116: main takes the next finished task from as_completed; the
\* exception of a task that raised is raised in main.
Collect ==
  /\ mpc = "collect"
  /\ AllStarted
  /\ completed < N
  /\ done # <<>>
  /\ done' = Tail(done)
  /\ IF pc[Head(done)] = "raised"
     THEN /\ mpc' = "aborted"
          /\ UNCHANGED <<results, completed, progress>>
     ELSE /\ results' = Append(results, result[Head(done)])
          /\ completed' = completed + 1
          /\ progress' = ProgressAfter(completed + 1, N)
          /\ mpc' = mpc
  /\ UNCHANGED <<tally, fixed, value, waiters, pc, result, log, delayed, sent,
                 funded, output>>

\* The list funded without the filter.
FundedOfAll(rs) == rs

\* [result for result in results if result['funded']]
FundedOf(rs) == SelectSeq(rs, LAMBDA r : r.funded)

\* Lines 113, 126: as_completed is exhausted and the results are filtered.
Filter ==
  /\ mpc = "collect"
  /\ completed = N
  /\ funded' = FundedOf(results)
  /\ mpc' = "report"
  /\ UNCHANGED <<tally, fixed, value, waiters, pc, result, log, delayed, sent,
                 done, results, completed, progress, output>>

\* Line 127: the share len(funded)/len(rows) is printed; it divides by zero
\* for an empty input.
Report ==
  /\ mpc = "report"
  /\ mpc' = IF N = 0 THEN "crashed" ELSE "write"
  /\ UNCHANGED <<tally, fixed, value, waiters, pc, result, log, delayed, sent,
                 done, results, completed, progress, funded, output>>

Range(q) == {q[i] : i \in 1..Len(q)}

\* Line 130
Fieldnames == Range(header) \cup {"firstTxHash"}

\* Lines 140-141: {k: v for k, v in row.items() if k in fieldnames}
Project(r) == [k \in DOMAIN r \cap Fieldnames |-> r[k]]

\* Lines 130-143: the funded records are written.
Write ==
  /\ mpc = "write"
  /\ output' = [i \in 1..Len(funded) |-> Project(funded[i])]
  /\ mpc' = "done"
  /\ UNCHANGED <<tally, fixed, value, waiters, pc, result, log, delayed, sent,
                 done, results, completed, progress, funded>>

Next ==
  \/ Setup
  \/ \E t \in Tasks : Start(t)
  \/ \E t \in Tasks : Resume(t)
  \/ \E t \in Tasks : Respond(t)
  \/ \E t \in Tasks : Awake(t)
  \/ Collect
  \/ Filter
  \/ Report
  \/ Write

Spec == Init /\ [][Next]_vars

SpecClient == InitClient /\ [][Next]_vars

\* The event loop runs a step while one is ready, the sleep ends, and every
\* request is taken to end with a reply or an error.  No step of the run can
\* be taken twice, so a run that keeps taking steps takes every step that
\* stays ready.
FairSpec == Spec /\ WF_vars(Next)

\* Largest number of input rows of a run with requests that do not
\* complete.
HangRows == 3

\* Runs in which the requests for 0xH never complete.
InitHang ==
  /\ header = <<"ID", "Address">>
  /\ api_key = "key"
  /\ rows \in SeqsUpTo(RowsOf(header, {"0xA", "0xB", "0xH"}), HangRows)
  /\ Loaded

\* The same scheduling as FairSpec: every step that is ready is taken; a
\* request that does not complete has no step.
FairHang == InitHang /\ [][Next]_vars /\ WF_vars(Next)

----------------------------------------------------------------------------
(* Runs of like tasks: every row has the same address, so the tasks differ *)
(* only in where they are and the run is told by the number of tasks at    *)
(* each place.  The semaphore has the capacity of line 98.                 *)

InitLike ==
  /\ header = <<"ID", "Address">>
  /\ api_key = "key"
  /\ \E a \in Addresses, n \in 0..MaxTasks :
       rows = [i \in 1..n |-> [ID |-> "id", Address |-> a]]
  /\ ceiling = SemaphoreValue
  /\ value = ceiling
  /\ tally = [place \in Places |-> IF place = "start" THEN Len(rows) ELSE 0]
  /\ waiters = <<>>
  /\ pc = <<>>
  /\ result = <<>>
  /\ log = <<>>
  /\ delayed = <<>>
  /\ sent = <<>>
  /\ done = <<>>
  /\ results = <<>>
  /\ completed = 0
  /\ progress = <<>>
  /\ mpc = "setup"
  /\ funded = <<>>
  /\ output = <<>>
  /\ parser = Unused

\* One task goes from a place to another.
Move(from, to) ==
  [tally EXCEPT ![from] = @ - 1, ![to] = @ + 1]

\* Semaphore.release() by a task that goes from a place to the queue of
\* main: one more free slot, and a waiter, if there is one, is woken.
releaseLike(from) ==
  /\ value' = value + 1
  /\ tally' = IF tally["waiting"] > 0
              THEN [Move(from, "queued") EXCEPT
                      !["waiting"] = @ - 1, !["woken"] = @ + 1]
              ELSE Move(from, "queued")

\* acquire() that takes a slot without looking at the free slots.
StartLikeUnchecked ==
  /\ mpc = "collect"
  /\ tally["start"] > 0
  /\ value' = value - 1
  /\ tally' = Move("start", "request")
  /\ UNCHANGED <<fixed, waiters, pc, result, log, delayed, sent, done,
                 results, completed, progress, mpc, funded, output>>

\* Line 26, the first step of a task.
StartLike ==
  /\ mpc = "collect"
  /\ tally["start"] > 0
  /\ IF value > 0
     THEN /\ value' = value - 1
          /\ tally' = Move("start", "request")
     ELSE /\ value' = value
          /\ tally' = Move("start", "waiting")
  /\ UNCHANGED <<fixed, waiters, pc, result, log, delayed, sent, done,
                 results, completed, progress, mpc, funded, output>>

\* Line 26, a woken waiter resumes in acquire().
ResumeLike ==
  /\ tally["woken"] > 0
  /\ IF value > 0
     THEN /\ value' = value - 1
          /\ tally' = Move("woken", "request")
     ELSE /\ value' = value
          /\ tally' = Move("woken", "waiting")
  /\ UNCHANGED <<fixed, waiters, pc, result, log, delayed, sent, done,
                 results, completed, progress, mpc, funded, output>>

\* Lines 43-75: the reply to the request of a task arrives.
RespondLike ==
  /\ tally["start"] = 0
  /\ tally["request"] > 0
  /\ IF OnReply(rows[1], Answer(api_key, rows[1].Address)).kind = "sleep"
     THEN /\ tally' = Move("request", "sleep")
          /\ value' = value
     ELSE releaseLike("request")
  /\ UNCHANGED <<fixed, waiters, pc, result, log, delayed, sent, done,
                 results, completed, progress, mpc, funded, output>>

\* Lines 70-71: the sleep of a task is over.
AwakeLike ==
  /\ tally["sleep"] > 0
  /\ releaseLike("sleep")
  /\ UNCHANGED <<fixed, waiters, pc, result, log, delayed, sent, done,
                 results, completed, progress, mpc, funded, output>>

\* The record every task of the run returns.
ResultLike ==
  LET out == OnReply(rows[1], Answer(api_key, rows[1].Address)) IN
  IF out.kind = "return" THEN out.rec ELSE Unfunded(rows[1])

\* Lines 113-116: main takes the next finished task.
CollectLike ==
  /\ mpc = "collect"
  /\ tally["start"] = 0
  /\ completed < N
  /\ tally["queued"] > 0
  /\ tally' = [tally EXCEPT !["queued"] = @ - 1]
  /\ results' = Append(results, ResultLike)
  /\ completed' = completed + 1
  /\ progress' = ProgressAfter(completed + 1, N)
  /\ UNCHANGED <<fixed, value, waiters, pc, result, log, delayed, sent,
                 done, mpc, funded, output>>

NextLike ==
  \/ Setup
  \/ StartLike
  \/ ResumeLike
  \/ RespondLike
  \/ AwakeLike
  \/ CollectLike
  \/ Filter
  \/ Report
  \/ Write

SpecLike == InitLike /\ [][NextLike]_vars

\* The runs of like tasks, and long runs of funded addresses, over one row
\* less than a progress interval and more.
InitLong ==
  \/ InitLike
  \/ /\ header = <<"ID", "Address">>
     /\ api_key = "key"
     /\ \E n \in (ProgressEvery - 1)..MaxLong :
          rows = [i \in 1..n |-> [ID |-> "id", Address |-> "0xA"]]
     /\ ceiling = SemaphoreValue
     /\ value = ceiling
     /\ tally = [place \in Places |-> IF place = "start" THEN Len(rows) ELSE 0]
     /\ waiters = <<>>
     /\ pc = <<>>
     /\ result = <<>>
     /\ log = <<>>
     /\ delayed = <<>>
     /\ sent = <<>>
     /\ done = <<>>
     /\ results = <<>>
     /\ completed = 0
     /\ progress = <<>>
     /\ mpc = "setup"
     /\ funded = <<>>
     /\ output = <<>>
     /\ parser = Unused

SpecLong == InitLong /\ [][NextLike]_vars

TypeOK ==
  /\ value \in 0..ceiling
  /\ completed \in 0..N
  /\ mpc \in {"setup", "collect", "aborted", "report", "crashed", "write", "done"}
  /\ \A t \in Tasks :
       pc[t] \in {"start", "waiting", "woken", "request", "sleep",
                  "returned", "raised"}

----------------------------------------------------------------------------
(* parser.py: process_csv filters the rows of the tweets for addresses *)

\* Line 15: {40}
AddressDigits == 40

\* Largest number of rows of the input of process_csv.
MaxTweets == 3

\* The text of n times the character c.
Repeat(c, n) == [i \in 1..n |-> c]

Text0xa == <<"0", "x">> \o Repeat("a", AddressDigits)

Text0xA == <<"0", "x">> \o Repeat("A", AddressDigits)

Text0xb == <<"0", "x">> \o Repeat("b", AddressDigits)

\* The texts of the tweets: an address after other text; two addresses; 41
\* hex digits after 0x; 39 hex digits after 0x; the empty text; 0X in
\* capitals; the first address in capitals; a start that does not match
\* before an address.
TweetTexts ==
  {<<"h", "i", " ">> \o Text0xa,
   Text0xa \o <<" ">> \o Text0xb,
   Text0xb \o <<"c">>,
   <<"0", "x">> \o Repeat("a", AddressDigits - 1) \o <<" ", "g">>,
   <<>>,
   <<"0", "X">> \o Repeat("b", AddressDigits),
   Text0xA,
   <<"0", "x", "a", "b">> \o Text0xb \o <<"!">>}

\* Line 34
RequiredColumns ==
  {"ID", "Name", "Handle", "TweetText", "TweetCreateTime", "TweetURL"}

\* The columns of the input file: the required ones, or without TweetText.
ParserFieldnames == {RequiredColumns, RequiredColumns \ {"TweetText"}}

\* The rows of an input file of the texts ts; the ID of a row is its place.
TweetRows(ts) ==
  [i \in 1..Len(ts) |->
     [ID |-> i, Name |-> "name", Handle |-> "handle", TweetText |-> ts[i],
      TweetCreateTime |-> "time", TweetURL |-> "url"]]

\* What extract_erc_address returns for a text without a match (None).
NoAddress == <<>>

\* The pattern 0x[a-fA-F0-9]{40} matches the text from place i on.
MatchesAt(text, i) ==
  /\ i + 1 + AddressDigits <= Len(text)
  /\ text[i] = "0"
  /\ text[i + 1] = "x"
  /\ \A j \in 1..AddressDigits : text[i + 1 + j] \in DOMAIN HexDigit

\* Lines 15-16: re.search gives the leftmost match.
extract_erc_address(text) ==
  LET starts == {i \in 1..Len(text) : MatchesAt(text, i)} IN
  IF starts = {} THEN NoAddress
  ELSE LET first == CHOOSE i \in starts : \A j \in starts : i <= j IN
       SubSeq(text, first, first + 1 + AddressDigits)

\* Line 44
keep_columns == {"ID", "Handle", "TweetCreateTime", "TweetURL"}

\* Lines 59-60
new_entry(row, address) ==
  [col \in keep_columns \cup {"Address"} |->
     IF col = "Address" THEN address ELSE row[col]]

\* What the variables of the validator are while process_csv runs.
NoRun ==
  /\ header = <<"ID", "Address">>
  /\ rows = <<>>
  /\ ceiling = SemaphoreValue
  /\ api_key = "key"
  /\ value = ceiling
  /\ tally = [place \in Places |-> 0]
  /\ waiters = <<>>
  /\ pc = <<>>
  /\ result = <<>>
  /\ log = <<>>
  /\ delayed = <<>>
  /\ sent = <<>>
  /\ done = <<>>
  /\ results = <<>>
  /\ completed = 0
  /\ progress = <<>>
  /\ mpc = "setup"
  /\ funded = <<>>
  /\ output = <<>>

\* Lines 27-31: the input file is opened.
InitParser ==
  /\ NoRun
  /\ \E fieldnames \in ParserFieldnames :
     \E ts \in (IF fieldnames = RequiredColumns
                 THEN SeqsUpTo(TweetTexts, MaxTweets) ELSE {<<>>}) :
       parser = [at |-> "open", fieldnames |-> fieldnames,
                 input |-> TweetRows(ts), read |-> 0,
                 output_rows |-> <<>>, seen_addresses |-> {},
                 duplicate_count |-> 0, written |-> <<>>]

validator == <<header, rows, ceiling, api_key, value, waiters, pc, result, log,
               delayed, sent, done, results, completed, progress, mpc, funded,
               output, tally>>

\* Lines 34-48: sys.exit(1) for a missing column.
Validate ==
  /\ parser.at = "open"
  /\ parser' = [parser EXCEPT
                  !.at = IF RequiredColumns \subseteq parser.fieldnames
                         THEN "loop" ELSE "exit"]
  /\ UNCHANGED validator

\* The loop body that adds every address it finds.
ReadRowNoDedup ==
  /\ parser.at = "loop"
  /\ parser.read < Len(parser.input)
  /\ LET row == parser.input[parser.read + 1]
         tweet_text == row.TweetText
         address == extract_erc_address(tweet_text)
     IN
     IF tweet_text = <<>> \/ address = NoAddress
     THEN parser' = [parser EXCEPT !.read = @ + 1]
     ELSE parser' = [parser EXCEPT
                       !.read = @ + 1,
                       !.seen_addresses = @ \cup {address},
                       !.output_rows = Append(@, new_entry(row, address))]
  /\ UNCHANGED validator

\* Lines 50-63: one row of the input.
ReadRow ==
  /\ parser.at = "loop"
  /\ parser.read < Len(parser.input)
  /\ LET row == parser.input[parser.read + 1]
         tweet_text == row.TweetText
         address == extract_erc_address(tweet_text)
     IN
     IF tweet_text = <<>> \/ address = NoAddress
     THEN parser' = [parser EXCEPT !.read = @ + 1]
     ELSE IF address \notin parser.seen_addresses
     THEN parser' = [parser EXCEPT
                       !.read = @ + 1,
                       !.seen_addresses = @ \cup {address},
                       !.output_rows = Append(@, new_entry(row, address))]
     ELSE parser' = [parser EXCEPT !.read = @ + 1, !.duplicate_count = @ + 1]
  /\ UNCHANGED validator

\* Lines 65-76: the output file is written if there is a row for it.
Finish ==
  /\ parser.at = "loop"
  /\ parser.read = Len(parser.input)
  /\ parser' = IF parser.output_rows # <<>>
               THEN [parser EXCEPT !.at = "written", !.written = parser.output_rows]
               ELSE [parser EXCEPT !.at = "nothing"]
  /\ UNCHANGED validator

NextParser ==
  \/ Validate
  \/ ReadRow
  \/ Finish

SpecParser == InitParser /\ [][NextParser]_vars

----------------------------------------------------------------------------
(* What the claims speak about *)

Finished == {t \in Tasks : pc[t] \in {"returned", "raised"}}

\* Main has left the loop over as_completed normally.
Reporting == mpc \in {"report", "crashed", "write", "done"}

\* The number of places of the list q that hold x.
Count(q, x) == Cardinality({i \in 1..Len(q) : q[i] = x})

\* C2: the completed counter equals the number of collected results and is
\* at most N; every finished task is either still queued for main or was
\* consumed by it exactly once; main gets to the report only with the counter
\* at N, nothing left in the queue and the record of every task in results.
C2_OneResultPerRecord ==
  /\ completed = Len(results)
  /\ completed <= N
  /\ \A i, j \in 1..Len(done) : done[i] = done[j] => i = j
  /\ Range(done) \subseteq Finished
  /\ Cardinality(Finished) =
       Len(done) + completed + (IF mpc = "aborted" THEN 1 ELSE 0)
  /\ Reporting =>
       /\ completed = N
       /\ done = <<>>
       /\ \A t \in Tasks :
            /\ pc[t] = "returned"
            /\ Count(results, result[t]) =
                 Cardinality({u \in Tasks : result[u] = result[t]})

\* A run over several rows got to the report.
C2_Witness ==
  /\ mpc = "report"
  /\ N >= 2
  /\ completed = N

\* C5 as claimed: no task ends with an exception and main is never aborted
\* by the exception of a task.
C5_NothingPropagates ==
  /\ \A t \in Tasks : pc[t] # "raised"
  /\ mpc # "aborted"

\* C6: the free slots and the tasks inside `async with` add up to the
\* capacity, so no slot is lost and none is released twice; when the run is
\* over every slot is free.
C6_SlotsConserved ==
  /\ value >= 0
  /\ value + Cardinality(Holding) = ceiling
  /\ (mpc \in {"done", "crashed", "aborted"} /\ Finished = Tasks) =>
       value = ceiling

\* With one slot: a task whose request raised has left, a task that
\* returned after the sleep has left, and a third task holds the slot.
C6_Witness ==
  /\ ceiling = 1
  /\ \E t, u, w \in Tasks :
       /\ pc[t] = "returned" /\ rows[t].Address = "0xC"
       /\ pc[u] = "returned" /\ delayed[u]
       /\ pc[w] = "request"

\* The reply carries a non-empty transfer list.
CarriesTransfer(reply) ==
  /\ ~reply.raises
  /\ "result" \in DOMAIN reply.data
  /\ "transfers" \in DOMAIN reply.data.result
  /\ reply.data.result.transfers # <<>>

\* The transfer has the four fields get_funding reads, with a timestamp and
\* a block number that parse.
WellFormed(transfer) ==
  /\ {"hash", "from", "metadata", "blockNum"} \subseteq DOMAIN transfer
  /\ "blockTimestamp" \in DOMAIN transfer.metadata
  /\ FromIsoTimestamp(ReplaceZ(transfer.metadata.blockTimestamp)).ok
  /\ IntBase16(transfer.blockNum).ok

\* The reply carries a transfer list whose first transfer is well-formed.
CarriesGoodTransfer(reply) ==
  /\ CarriesTransfer(reply)
  /\ WellFormed(reply.data.result.transfers[1])

\* The reply came without an exception and without a transfer.
NoTransfer(reply) ==
  /\ ~reply.raises
  /\ \/ "result" \notin DOMAIN reply.data
     \/ /\ "transfers" \in DOMAIN reply.data.result
        /\ reply.data.result.transfers = <<>>

ReplyOf(t) == Answer(api_key, rows[t].Address)

Returned == {t \in Tasks : pc[t] = "returned"}

\* C3 as claimed: with the request of some task raising, the run is not
\* aborted, every task that returns has the verdict of its own reply, the
\* record of the raising task is collected as unfunded, and at the report the
\* funded count is the number of records whose reply carried a transfer.
C3_IsolationCarried ==
  (\E e \in Tasks : "Address" \in DOMAIN rows[e] /\ ReplyOf(e).raises) =>
    /\ mpc # "aborted"
    /\ \A t \in Returned :
         /\ ReplyOf(t).raises => result[t] = Unfunded(rows[t])
         /\ CarriesGoodTransfer(ReplyOf(t)) => result[t].funded
    /\ mpc \in {"report", "write", "done"} =>
         /\ completed = N
         /\ Returned = Tasks
         /\ \A t \in Tasks : Count(results, result[t]) >= 1
         /\ Len(funded) =
              Cardinality({t \in Tasks : CarriesTransfer(ReplyOf(t))})

\* C3: the same, the funded count being the number of records whose reply
\* carried a transfer list with a well-formed first transfer.
C3_Isolation ==
  (\E e \in Tasks : "Address" \in DOMAIN rows[e] /\ ReplyOf(e).raises) =>
    /\ mpc # "aborted"
    /\ \A t \in Returned :
         /\ ReplyOf(t).raises => result[t] = Unfunded(rows[t])
         /\ result[t].funded <=> CarriesGoodTransfer(ReplyOf(t))
    /\ mpc \in {"report", "write", "done"} =>
         /\ completed = N
         /\ Returned = Tasks
         /\ \A t \in Tasks : Count(results, result[t]) >= 1
         /\ Len(funded) =
              Cardinality({t \in Tasks : CarriesGoodTransfer(ReplyOf(t))})

\* The run reports one funded record out of three: a request raised, a
\* reply carried a well-formed transfer, a reply carried a malformed one.
C3_Witness ==
  /\ mpc = "report"
  /\ Len(funded) = 1
  /\ \E e, g, m \in Tasks :
       /\ ReplyOf(e).raises
       /\ CarriesGoodTransfer(ReplyOf(g))
       /\ CarriesTransfer(ReplyOf(m)) /\ ~CarriesGoodTransfer(ReplyOf(m))

\* C4 as claimed: a returned record is funded exactly if its reply carried a
\* non-empty transfer list.
C4_FundedIffTransfers ==
  \A t \in Returned : result[t].funded <=> CarriesTransfer(ReplyOf(t))

\* C4: a returned record is funded exactly if its reply carried a non-empty
\* transfer list whose first transfer has hash, from, blockNum and
\* metadata.blockTimestamp, with a timestamp and a block number that parse.
C4_FundedIffGoodTransfer ==
  \A t \in Returned : result[t].funded <=> CarriesGoodTransfer(ReplyOf(t))

\* One task returned funded from a list of two transfers, another one
\* unfunded from a transfer without metadata.
C4_Witness ==
  \E t, u \in Returned :
    /\ rows[t].Address = "0xG" /\ result[t].funded
    /\ rows[u].Address = "0xD3" /\ ~result[u].funded

\* C7: when the output is written, it has one row per collected record with
\* funded = true and no other row: every record of funded is funded, every
\* funded record of results is in funded as often as in results, the rows
\* written are those of funded in their order, and processed is N.
C7_OutputIsFunded ==
  mpc = "done" =>
    /\ completed = N
    /\ Len(results) = N
    /\ \A i \in 1..Len(funded) : funded[i].funded
    /\ \A i \in 1..Len(results) :
         Count(funded, results[i]) =
           (IF results[i].funded THEN Count(results, results[i]) ELSE 0)
    /\ Len(funded) = Cardinality({i \in 1..Len(results) : results[i].funded})
    /\ Len(output) = Len(funded)
    /\ \A i \in 1..Len(output) :
         /\ output[i].Address = funded[i].Address
         /\ output[i].firstTxHash = funded[i].firstTxHash
         /\ CarriesGoodTransfer(Answer(api_key, output[i].Address))

\* An output of one row from a run with a funded, an unfunded and an
\* errored record.
C7_Witness ==
  /\ mpc = "done"
  /\ Len(output) = 1
  /\ \E i, j \in 1..Len(results) :
       /\ results[i].Address = "0xB"
       /\ results[j].Address = "0xC"

InputAddresses == {rows[t].Address : t \in Tasks}

\* C8: the funded addresses and the funded count of a run depend on the
\* addresses of the input alone, not on their order in rows nor on the order
\* of completion.
C8_OrderIndependent ==
  mpc \in {"report", "write", "done"} =>
    /\ {funded[i].Address : i \in 1..Len(funded)} =
         {a \in InputAddresses : CarriesGoodTransfer(Answer(api_key, a))}
    /\ Len(funded) =
         Cardinality({t \in Tasks : CarriesGoodTransfer(ReplyOf(t))})

\* A run whose results are not in the order of the input, the funded
\* record being the last row and the first result.
C8_Witness ==
  /\ mpc = "done"
  /\ N >= 2
  /\ CarriesGoodTransfer(ReplyOf(N))
  /\ ~CarriesGoodTransfer(ReplyOf(1))
  /\ results[1] = result[N]

C1_AtMostCeiling ==
  /\ ceiling = 20
  /\ tally["request"] + tally["sleep"] <= 20
  /\ tally["request"] + tally["sleep"] + value = 20

\* Twenty tasks hold a slot, some of them in the sleep, while another task
\* waits.
C1_Witness ==
  /\ tally["request"] + tally["sleep"] = 20
  /\ tally["sleep"] >= 1
  /\ tally["request"] >= 1
  /\ tally["waiting"] >= 1

Admitted(t) == pc[t] \in {"request", "sleep", "returned", "raised"}

\* C9 as claimed: under fair scheduling every task that waits for a slot is
\* admitted, every task completes, and the run gets to the end of main, for
\* every input.
C9_Termination ==
  /\ \A t \in 1..MaxN :
       (t \in Tasks /\ pc[t] = "waiting") ~> (t \in Tasks /\ Admitted(t))
  /\ <>(Finished = Tasks)
  /\ <>(mpc = "done")

\* C11: a progress line is printed after the k-th completion exactly if k is
\* a multiple of 100 or k = N, once, also for the last completion of an input
\* of a multiple of 100 rows; the line tells k out of N, and the lines are in
\* the order of the counter.
C11_ProgressLines ==
  /\ \A k \in 1..completed :
       Count(progress, [completed |-> k, total |-> N]) =
         (IF k % 100 = 0 \/ k = N THEN 1 ELSE 0)
  /\ \A i \in 1..Len(progress) :
       /\ progress[i].total = N
       /\ progress[i].completed \in 1..completed
       /\ \A j \in 1..Len(progress) :
            i < j => progress[i].completed < progress[j].completed

\* The last of 100 rows is collected and one line was printed for it.
C11_Witness ==
  /\ N = 100
  /\ completed = 100
  /\ progress = <<[completed |-> 100, total |-> 100]>>

\* C12 as claimed: without the credential no request is sent and no verdict
\* is computed, the run being aborted instead; and a run with the credential
\* is never aborted.
C12_AbortsIffNoCredential ==
  /\ api_key = Unset =>
       /\ \A t \in Tasks : sent[t] = 0 /\ result[t] = None
       /\ mpc \notin {"report", "write", "done"}
  /\ api_key # Unset => mpc \notin {"aborted", "crashed"}

\* The reply is a document with an empty transfer list: the lookup went
\* through and found nothing.
FoundNothing(reply) ==
  /\ ~reply.raises
  /\ "result" \in DOMAIN reply.data
  /\ "transfers" \in DOMAIN reply.data.result
  /\ reply.data.result.transfers = <<>>

\* The lookup failed: the request raised, the reply is an error document, or
\* it is malformed.
FailedLookup(reply) == ~CarriesGoodTransfer(reply) /\ ~FoundNothing(reply)

\* C13 as claimed: a task whose lookup failed returns its unfunded record
\* with one diagnostic line printed, and the line names its address.
C13_FailuresAreLogged ==
  \A t \in Returned :
    FailedLookup(ReplyOf(t)) =>
      /\ ~result[t].funded
      /\ log[t] = <<rows[t].Address>>

Woken == {t \in Tasks : pc[t] = "woken"}

\* C14: once main has created the tasks every task can take its first step,
\* and a woken waiter can go on, whatever main has collected; a task waits
\* only while every slot is held or is promised to a woken waiter; and main
\* collects nothing before every task has taken its first step.
C14_GatedOnlyByLimiter ==
  /\ \A t \in Tasks : (mpc = "collect" /\ pc[t] = "start") => ENABLED Start(t)
  /\ \A t \in Woken : ENABLED Resume(t)
  /\ (AllStarted /\ waiters # <<>>) => value = Cardinality(Woken)
  /\ value >= Cardinality(Woken)
  /\ completed > 0 => AllStarted

\* Of three tasks at two slots one has finished and waits in the queue of
\* main, which has collected nothing, and the other two, one of them the
\* waiter the finished task woke, have their requests in flight.
C14_Witness ==
  /\ N = 3
  /\ ceiling = 2
  /\ completed = 0
  /\ Len(done) = 1
  /\ Cardinality({t \in Tasks : pc[t] = "request"}) = 2

\* The tasks whose request never completes.
Hung == {t \in Tasks : Hangs(rows[t].Address)}

RowsWith(a) == {t \in Tasks : "Address" \in DOMAIN rows[t] /\ rows[t].Address = a}

\* C16: a task sends no request before it has a slot and one request from
\* then on, never a second one; the requests sent for an address are never
\* more than the rows of that address; and a run that gets to its report has
\* sent one request for every row and collected one record for every row,
\* rows of the same address included.
C16_OneQueryPerRecord ==
  /\ \A t \in Tasks :
       /\ sent[t] <= 1
       /\ pc[t] \in {"start", "waiting", "woken"} => sent[t] = 0
       /\ pc[t] \in {"request", "sleep", "returned"} => sent[t] = 1
  /\ \A a \in Addresses :
       Cardinality({t \in RowsWith(a) : sent[t] = 1}) <= Cardinality(RowsWith(a))
  /\ mpc \in {"report", "write", "done"} =>
       /\ \A t \in Tasks : sent[t] = 1
       /\ \A a \in Addresses :
            /\ Cardinality({t \in RowsWith(a) : sent[t] = 1}) =
                 Cardinality(RowsWith(a))
            /\ Cardinality({i \in 1..Len(results) : results[i].Address = a}) =
                 Cardinality(RowsWith(a))

\* Two rows of the same address, a request sent for each, and the run at
\* its report with a record for each.
C16_Witness ==
  /\ mpc = "report"
  /\ N >= 2
  /\ rows[1].Address = rows[2].Address
  /\ sent[1] = 1 /\ sent[2] = 1
  /\ Len(results) = N

\* The steps of a task in the order of get_funding.
TaskOrder ==
  {<<"start", "waiting">>, <<"start", "request">>, <<"start", "raised">>,
   <<"waiting", "woken">>,
   <<"woken", "waiting">>, <<"woken", "request">>, <<"woken", "raised">>,
   <<"request", "sleep">>, <<"request", "returned">>,
   <<"sleep", "returned">>}

\* C17: a task takes a slot, sends its request, sleeps if its reply has no
\* transfer, releases the slot and hands over its result, in this order.  The
\* tasks at the request and in the sleep are those that hold a slot, so a
\* sleeping task counts against the ceiling; a task sleeps only after its
\* request; a task has a result, and is in the queue of main, only when it
\* holds no slot; and main has collected no more results than there are
\* tasks that gave their slot back.  Step by step: the slot is taken with the
\* request, kept when the sleep begins, and given back in the step that
\* queues the task for main.
C17_TaskOrder ==
  /\ [](/\ value + Cardinality({t \in Tasks : pc[t] = "request"})
                  + Cardinality({t \in Tasks : pc[t] = "sleep"}) = ceiling
        /\ \A t \in Tasks :
             /\ pc[t] = "sleep" => (delayed[t] /\ sent[t] = 1 /\ result[t] = None)
             /\ pc[t] = "request" => result[t] = None
             /\ result[t] # None => pc[t] = "returned"
        /\ \A i \in 1..Len(done) : pc[done[i]] \in {"returned", "raised"}
        /\ completed + Len(done) <=
             Cardinality({t \in Tasks : pc[t] \in {"returned", "raised"}}))
  /\ [][\A t \in Tasks :
          /\ pc'[t] # pc[t] => <<pc[t], pc'[t]>> \in TaskOrder
          /\ (pc[t] # "request" /\ pc'[t] = "request") =>
               (value > 0 /\ value' = value - 1 /\ sent'[t] = sent[t] + 1)
          /\ (pc[t] = "request" /\ pc'[t] = "sleep") =>
               (value' = value /\ done' = done)
          /\ (pc[t] \in {"request", "sleep"} /\ pc'[t] = "returned") =>
               (value' = value + 1 /\ done' = Append(done, t)
                /\ result'[t] # None)
          /\ (pc[t] = "sleep" /\ pc'[t] = "sleep") => result'[t] = None
       ]_vars

\* With one slot a task sleeps, no slot is free and another task waits.
C17_Witness ==
  /\ ceiling = 1
  /\ value = 0
  /\ \E t, u \in Tasks : pc[t] = "sleep" /\ pc[u] = "waiting"

\* C18 as claimed: a run over an empty input creates no task, sends no
\* request and does not end in an error; when it is over it has processed
\* nothing, found nothing funded and written an empty output.
C18_EmptyInputCompletes ==
  N = 0 =>
    /\ Tasks = {}
    /\ mpc \notin {"crashed", "aborted"}
    /\ mpc = "done" => (completed = 0 /\ funded = <<>> /\ output = <<>>)

\* The fields get_funding adds to the row in the record rec.
VerdictFields(rec) ==
  IF rec.funded THEN {"funded", "firstTxHash", "funder", "timestamp", "block"}
  ELSE {"funded"}

AddressOf(k) == extract_erc_address(parser.input[k].TweetText)

\* The rows read so far in which an address was found.
RowsFound == {k \in 1..parser.read : AddressOf(k) # NoAddress}

\* C20: after any number of rows read, no two records of the output have
\* the same address, every address found so far is in the output and in
\* seen_addresses, the record of an address is made of the first row that
\* has it, the records are in the order of their rows, and the records and
\* the duplicates counted add up to the rows in which an address was found;
\* the file written has these records.
C20_DedupByAddress ==
  parser.at \in {"loop", "written", "nothing"} =>
    LET out == parser.output_rows IN
    /\ \A a, b \in 1..Len(out) : out[a].Address = out[b].Address => a = b
    /\ \A k \in RowsFound : \E j \in 1..Len(out) : out[j].Address = AddressOf(k)
    /\ parser.seen_addresses = {AddressOf(k) : k \in RowsFound}
    /\ \A j \in 1..Len(out) :
         /\ out[j].ID \in RowsFound
         /\ AddressOf(out[j].ID) = out[j].Address
         /\ \A k \in RowsFound : k < out[j].ID => AddressOf(k) # out[j].Address
         /\ out[j] = new_entry(parser.input[out[j].ID], out[j].Address)
    /\ \A a, b \in 1..Len(out) : a < b => out[a].ID < out[b].ID
    /\ Len(out) + parser.duplicate_count = Cardinality(RowsFound)
    /\ parser.at = "written" => parser.written = out
    /\ parser.at = "nothing" => (out = <<>> /\ parser.written = <<>>)

\* The file is written with two records, of the first and the third of
\* three rows; the address of the second row is the one of the first.
C20_Witness ==
  /\ parser.at = "written"
  /\ parser.read = 3
  /\ parser.duplicate_count = 1
  /\ Len(parser.written) = 2
  /\ parser.written[1].ID = 1
  /\ parser.written[2].ID = 3
  /\ AddressOf(2) = parser.written[1].Address

====
